---- MODULE Spec2Model ----
(***************************************************************************)
(* Model of scripts/audit-betadocs-links.py: the betadocs link audit.      *)
(*                                                                         *)
(* Strings are sequences of one-character strings, so that every string    *)
(* operation of the script (split, replace, startswith, endswith, slicing, *)
(* join) is computed character by character as Python computes it.         *)
(* A file is identified by str(md_file.relative_to(BETADOCS_ROOT)).        *)
(***************************************************************************)
EXTENDS Integers, Sequences, FiniteSets, TLC

VARIABLES
    tree,         \* the directory tree: path matched by rglob("*.md") -> text, or NoText
    pc,           \* position of the script / of the call sequence
    file_map,     \* file_map: lookup key -> md_file
    to_index,     \* files the first rglob loop has not yet yielded
    results,      \* the results dict (redundant_links and file_details as functions)
    queue,        \* suffix of sorted(rglob) the scan loop has not started
    md_file,      \* the file of the current scan iteration (or None)
    matches,      \* matches the finditer iterator has not yet yielded
    link_info,    \* link_info of the link being processed (or None)
    report,       \* what the report pass printed (or None)
    link_url,     \* argument of the resolve_link_path call under test
    source_file,  \* argument of the resolve_link_path call under test
    ret,          \* <<resolved_path, link_type>> returned by that call (or NoRet)
    arg,          \* argument of the check_file_exists call under test
    exists,       \* its result: "unset", "true" or "false"
    file_links    \* file_links of the current scan iteration

vars == <<tree, pc, file_map, to_index, results, queue, md_file, matches,
          link_info, report, link_url, source_file, ret, arg, exists,
          file_links>>

(***************************************************************************)
(* Bounds of the model.                                                    *)
(***************************************************************************)
MaxSegs == 4      \* segments after the "../" prefix of an enumerated target
MaxTail == 2      \* segments after the other prefixes of an enumerated target
MaxIndexed == 3   \* paths in a tree whose index is queried directly
MaxFiles == 2     \* paths in a tree that is scanned
MaxRepeat == 5    \* links of a document that repeats one link

(***************************************************************************)
(* Python values that are not strings.                                     *)
(***************************************************************************)
None == <<"None">>
NoRet == <<"NoRet">>
NoText == <<"NoText">>    \* read_text raises: a directory, or an undecodable file

(***************************************************************************)
(* str methods.                                                            *)
(***************************************************************************)
startswith(s, p) == Len(s) >= Len(p) /\ SubSeq(s, 1, Len(p)) = p

endswith(s, p) == Len(s) >= Len(p) /\ SubSeq(s, Len(s) - Len(p) + 1, Len(s)) = p

\* s[n:]
DropFirst(s, n) == SubSeq(s, n + 1, Len(s))

\* s[:-n]
DropLast(s, n) == SubSeq(s, 1, Len(s) - n)

\* s.split(c)[0]: the text before the first occurrence of the character c
RECURSIVE SplitFirst(_, _)
SplitFirst(s, c) ==
    IF s = <<>> \/ Head(s) = c THEN <<>>
    ELSE <<Head(s)>> \o SplitFirst(Tail(s), c)

\* s.replace(pat, ''): every non-overlapping occurrence removed, left to right
RECURSIVE Remove(_, _)
Remove(s, pat) ==
    IF s = <<>> THEN <<>>
    ELSE IF startswith(s, pat) THEN Remove(DropFirst(s, Len(pat)), pat)
    ELSE <<Head(s)>> \o Remove(Tail(s), pat)

\* s.split(c): the segments between the occurrences of the character c
RECURSIVE Split(_, _)
Split(s, c) ==
    LET first == SplitFirst(s, c)
    IN  IF Len(first) = Len(s) THEN <<first>>
        ELSE <<first>> \o Split(DropFirst(s, Len(first) + 1), c)

\* c.join(parts)
RECURSIVE Join(_, _)
Join(parts, c) ==
    IF parts = <<>> THEN <<>>
    ELSE IF Len(parts) = 1 THEN parts[1]
    ELSE parts[1] \o <<c>> \o Join(Tail(parts), c)

\* s.strip(): the only whitespace of the modelled names is the space
RECURSIVE LStrip(_)
LStrip(s) == IF s # <<>> /\ Head(s) = " " THEN LStrip(Tail(s)) ELSE s

RECURSIVE RStrip(_)
RStrip(s) == IF s # <<>> /\ s[Len(s)] = " " THEN RStrip(DropLast(s, 1)) ELSE s

Strip(s) == LStrip(RStrip(s))

(***************************************************************************)
(* Literals of the script.                                                 *)
(***************************************************************************)
DotMd == <<".", "m", "d">>
DotMD == <<".", "M", "D">>
Http == <<"h", "t", "t", "p", ":", "/", "/">>
Https == <<"h", "t", "t", "p", "s", ":", "/", "/">>
Mailto == <<"m", "a", "i", "l", "t", "o", ":">>
SlashDocs == <<"/", "d", "o", "c", "s", "/">>
DocsSlash == <<"d", "o", "c", "s", "/">>
SlashReadme == <<"/", "R", "E", "A", "D", "M", "E">>
DotSlash == <<".", "/">>
DotDotSlash == <<".", ".", "/">>
DotDot == <<".", ".">>
Dot == <<".">>

(***************************************************************************)
(* resolve_link_path                                                       *)
(***************************************************************************)
\* str(source_file.parent.relative_to(BETADOCS_ROOT)), "." replaced by ""
SourceDir(file) ==
    LET segs == Split(file, "/")
    IN  Join(SubSeq(segs, 1, Len(segs) - 1), "/")

\* url = link_url.split('#')[0]
RemoveAnchor(url) == SplitFirst(url, "#")

\* url.startswith(('http://', 'https://', 'mailto:'))
IsExternal(url) ==
    startswith(url, Http) \/ startswith(url, Https) \/ startswith(url, Mailto)

\* url.startswith('#'), tested on the url whose anchor is already removed
IsAnchorOnly(url) == startswith(url, <<"#">>)

\* url = url.replace('.md', '').replace('.MD', '')
RemoveMdExtension(url) == Remove(Remove(url, DotMd), DotMD)

\* WalkPart with ".." kept when the stack is already empty
WalkPartKeepsDotDot(parts, part) ==
    IF part = DotDot
    THEN IF parts # <<>> THEN DropLast(parts, 1) ELSE Append(parts, part)
    ELSE IF part = Dot \/ part = <<>> THEN parts
    ELSE Append(parts, part)

\* one iteration of "for part in rel_parts"
WalkPart(parts, part) ==
    IF part = DotDot
    THEN IF parts # <<>> THEN DropLast(parts, 1) ELSE parts
    ELSE IF part = Dot \/ part = <<>> THEN parts
    ELSE Append(parts, part)

\* the loop "for part in rel_parts" over the stack parts
RECURSIVE WalkParts(_, _)
WalkParts(parts, rel_parts) ==
    IF rel_parts = <<>> THEN parts
    ELSE WalkParts(WalkPart(parts, Head(rel_parts)), Tail(rel_parts))

\* the "../" branch
GoUp(url, source_dir) ==
    LET parts == IF source_dir # <<>> THEN Split(source_dir, "/") ELSE <<>>
        rel_parts == Split(url, "/")
    IN  Join(WalkParts(parts, rel_parts), "/")

\* the final else branch: relative to the current directory
CurrentDir(url, source_dir) ==
    IF source_dir # <<>> THEN source_dir \o <<"/">> \o url ELSE url

\* the code after the "# Relative paths" block, reached by the "./" branch
AfterRelative(url) ==
    IF startswith(url, <<"/">>) THEN <<DropFirst(url, 1), "absolute">>
    ELSE <<url, "relative">>

\* the body from "# Absolute paths starting with /docs/" on
ResolveInternal(url, file) ==
    IF startswith(url, SlashDocs) THEN <<DropFirst(url, 6), "absolute">>
    ELSE IF startswith(url, DotDotSlash) \/ startswith(url, DotSlash)
            \/ ~startswith(url, <<"/">>)
    THEN IF startswith(url, DotSlash) THEN AfterRelative(DropFirst(url, 2))
         ELSE IF startswith(url, DotDotSlash)
         THEN <<GoUp(url, SourceDir(file)), "relative">>
         ELSE <<CurrentDir(url, SourceDir(file)), "relative">>
    ELSE AfterRelative(url)

resolve_link_path(url, file) ==
    IF IsExternal(RemoveAnchor(url)) THEN <<None, "external">>
    ELSE IF IsAnchorOnly(RemoveAnchor(url)) THEN <<None, "anchor">>
    ELSE ResolveInternal(RemoveMdExtension(RemoveAnchor(url)), file)

(***************************************************************************)
(* file_map construction and check_file_exists                             *)
(***************************************************************************)
EmptyMap == [k \in {} |-> None]

\* d[k] = v
Put(d, k, v) == [x \in DOMAIN d \cup {k} |-> IF x = k THEN v ELSE d[x]]

\* str(md_file.relative_to(BETADOCS_ROOT)).replace('.md', '').strip(), and the
\* trailing-space test that follows it
RelPath(file) ==
    LET rel_path == Strip(Remove(file, DotMd))
    IN  IF endswith(rel_path, <<" ">>) THEN DropLast(rel_path, 1) ELSE rel_path

\* one iteration of the "Build file map" loop
RegisterFile(fm, file) ==
    LET rel_path == RelPath(file)
        fm1 == Put(fm, rel_path, file)
        fm2 == Put(fm1, SlashDocs \o rel_path, file)
        fm3 == Put(fm2, DocsSlash \o rel_path, file)
    IN  IF startswith(rel_path, <<"/">>)
        THEN Put(fm3, DropFirst(rel_path, 1), file)
        ELSE fm3

\* ReadmeFallback without the lookup of <resolved_path>/README
NoReadmeFallback(resolved_path) == FALSE

\* the README test at the end of check_file_exists
ReadmeFallback(resolved_path) ==
    IF endswith(resolved_path, SlashReadme) THEN FALSE
    ELSE (resolved_path \o SlashReadme) \in DOMAIN file_map

\* check_file_exists that tries the prefixed variants only
check_prefixed_only(resolved_path) ==
    IF resolved_path = <<>> \/ resolved_path = None THEN FALSE
    ELSE IF \E path_variant \in {SlashDocs \o resolved_path,
                                 DocsSlash \o resolved_path} :
                path_variant \in DOMAIN file_map
    THEN TRUE
    ELSE ReadmeFallback(resolved_path)

check_file_exists(resolved_path) ==
    IF resolved_path = <<>> \/ resolved_path = None THEN FALSE
    ELSE IF \E path_variant \in {resolved_path, SlashDocs \o resolved_path,
                                 DocsSlash \o resolved_path} :
                path_variant \in DOMAIN file_map
    THEN TRUE
    ELSE ReadmeFallback(resolved_path)

(***************************************************************************)
(* The calls resolve_link_path(link_url, source_file) over enumerated      *)
(* targets and source documents.                                           *)
(***************************************************************************)
X == <<"x">>

\* "root.md", "sub/page.md", "a/b.md", "a/b/c/p.md"
RootMd == <<"r", "o", "o", "t">> \o DotMd
SubPageMd == <<"s", "u", "b", "/", "p", "a", "g", "e">> \o DotMd
ABMd == <<"a", "/", "b">> \o DotMd
ABCPMd == <<"a", "/", "b", "/", "c", "/", "p">> \o DotMd

SourcePool == {RootMd, SubPageMd, ABMd, ABCPMd}

SegPool == {DotDot, Dot, <<>>, X}

SegSeqs(n) == UNION {[1..k -> SegPool] : k \in 0..n}

Prefixes == {<<>>, DotSlash, <<"/">>, SlashDocs, <<"#">>, Https, Mailto}

Suffixes == {<<>>, DotMd, DotMD, <<".", "M", "d">>, <<".", "m", "D">>,
             <<"#", "t", "o", "p">>, <<".", "m", "d", "x">>}

\* group 2 of LINK_PATTERN is never empty
Targets ==
    ({DotDotSlash \o Join(segs, "/") \o suf :
        segs \in SegSeqs(MaxSegs), suf \in {<<>>, DotMd}}
     \cup
     {pre \o Join(segs, "/") \o suf :
        pre \in Prefixes, segs \in SegSeqs(MaxTail), suf \in Suffixes})
    \ {<<>>}

NoScan ==
    /\ tree = <<>>
    /\ file_map = EmptyMap
    /\ to_index = {}
    /\ results = <<>>
    /\ queue = <<>>
    /\ md_file = None
    /\ matches = <<>>
    /\ link_info = None
    /\ report = None
    /\ file_links = <<>>

InitResolve ==
    /\ NoScan
    /\ pc = "call"
    /\ link_url \in Targets
    /\ source_file \in SourcePool
    /\ ret = NoRet
    /\ arg = None
    /\ exists = "unset"

CallResolve ==
    /\ pc = "call"
    /\ ret' = resolve_link_path(link_url, source_file)
    /\ pc' = "returned"
    /\ UNCHANGED <<tree, file_map, to_index, results, queue, md_file, matches,
                   link_info, report, link_url, source_file, arg, exists,
                   file_links>>

NextResolve == CallResolve

SpecResolve == InitResolve /\ [][NextResolve]_vars

(***************************************************************************)
(* Directory trees.  rglob("*.md") yields every path whose last component  *)
(* ends in ".md", directories included; a directory has no text.           *)
(***************************************************************************)
Guide == <<"g", "u", "i", "d", "e">>
Readme == <<"R", "E", "A", "D", "M", "E">>
GuideReadmeMd == Guide \o <<"/">> \o Readme \o DotMd
SubGuideReadmeMd == <<"s", "u", "b", "/">> \o GuideReadmeMd
HiddenMd == DotMd
HiddenReadmeMd == DotMd \o <<"/">> \o Readme \o DotMd

IsDirectory(paths, path) ==
    \E other \in paths : other # path /\ startswith(other, path \o <<"/">>)

\* every directory of the tree that rglob matches is one of its paths
Closed(paths) ==
    \A path \in paths : \A i \in 1..Len(path) :
        (path[i] = "/" /\ endswith(SubSeq(path, 1, i - 1), DotMd))
            => SubSeq(path, 1, i - 1) \in paths

LinkFilePool == {RootMd, SubPageMd, GuideReadmeMd, SubGuideReadmeMd, ABMd,
                 HiddenMd, HiddenReadmeMd}

LinkTrees ==
    {[path \in paths |-> IF IsDirectory(paths, path) THEN NoText ELSE <<>>] :
        paths \in {ps \in SUBSET LinkFilePool :
                      /\ Cardinality(ps) \in 1..MaxIndexed
                      /\ Closed(ps)}}

LinkTargets == {Guide, Guide \o DotMd, DotSlash \o Guide, DotDotSlash \o Guide,
                Guide \o <<"/">> \o Readme, <<"/">> \o Guide,
                SlashDocs \o <<"a", "/", "b">>, <<"a", "/", "b">>,
                <<"#", "t", "o", "p">>}

IsFile(path) == tree[path] # NoText

InitLink ==
    /\ tree \in LinkTrees
    /\ pc = "index"
    /\ file_map = EmptyMap
    /\ to_index = DOMAIN tree
    /\ results = <<>>
    /\ queue = <<>>
    /\ md_file = None
    /\ matches = <<>>
    /\ link_info = None
    /\ report = None
    /\ file_links = <<>>
    /\ link_url \in LinkTargets
    /\ source_file \in {path \in DOMAIN tree : IsFile(path)}
    /\ ret = NoRet
    /\ arg = None
    /\ exists = "unset"

\* one iteration of "for md_file in BETADOCS_ROOT.rglob(...)": the order in
\* which rglob yields the paths is the file system's
IndexFile ==
    /\ pc = "index"
    /\ \E file \in to_index :
        /\ file_map' = RegisterFile(file_map, file)
        /\ to_index' = to_index \ {file}
    /\ UNCHANGED <<tree, pc, results, queue, md_file, matches, link_info,
                   report, link_url, source_file, ret, arg, exists,
                   file_links>>

\* the index is complete: the calls under test may start
IndexDone ==
    /\ pc = "index"
    /\ to_index = {}
    /\ pc' = "call"
    /\ UNCHANGED <<tree, file_map, to_index, results, queue, md_file, matches,
                   link_info, report, link_url, source_file, ret, arg, exists,
                   file_links>>

\* the paths check_file_exists is called with: the resolved path of the link,
\* every registered key, and every registered key with "/README" cut off
CheckArgs ==
    (IF ret[1] = None THEN {} ELSE {ret[1]})
    \cup DOMAIN file_map
    \cup {DropLast(key, 7) : key \in {k \in DOMAIN file_map : endswith(k, SlashReadme)}}

CallCheck ==
    /\ pc = "returned"
    /\ \E resolved_path \in CheckArgs :
        /\ arg' = resolved_path
        /\ exists' = IF check_file_exists(resolved_path) THEN "true" ELSE "false"
    /\ pc' = "checked"
    /\ UNCHANGED <<tree, file_map, to_index, results, queue, md_file, matches,
                   link_info, report, link_url, source_file, ret, file_links>>

NextLink == IndexFile \/ IndexDone \/ CallResolve \/ CallCheck

SpecLink == InitLink /\ [][NextLink]_vars

(***************************************************************************)
(* Ordering: str comparison is by code point, Path comparison by parts.    *)
(***************************************************************************)
\* the characters of the model in code point order
CodePoints == <<"\n", " ", "#", "(", ")", ".", "/", ":", "A", "D", "E", "M",
                "R", "[", "]", "a", "b", "c", "d", "e", "g", "h", "i", "l",
                "m", "n", "o", "p", "r", "s", "t", "u", "x">>

Ord(c) == CHOOSE i \in 1..Len(CodePoints) : CodePoints[i] = c

\* s < t for str
RECURSIVE StrLess(_, _)
StrLess(s, t) ==
    IF t = <<>> THEN FALSE
    ELSE IF s = <<>> THEN TRUE
    ELSE IF Head(s) # Head(t) THEN Ord(Head(s)) < Ord(Head(t))
    ELSE StrLess(Tail(s), Tail(t))

\* p < q for lists of str
RECURSIVE PartsLess(_, _)
PartsLess(p, q) ==
    IF q = <<>> THEN FALSE
    ELSE IF p = <<>> THEN TRUE
    ELSE IF Head(p) # Head(q) THEN StrLess(Head(p), Head(q))
    ELSE PartsLess(Tail(p), Tail(q))

\* a < b for Path
PathLess(a, b) == PartsLess(Split(a, "/"), Split(b, "/"))

\* sorted(paths) for a set of Path
RECURSIVE SortedPaths(_)
SortedPaths(paths) ==
    IF paths = {} THEN <<>>
    ELSE LET first == CHOOSE a \in paths : \A b \in paths \ {a} : PathLess(a, b)
         IN  <<first>> \o SortedPaths(paths \ {first})

\* sorted(strs) for a set of str
RECURSIVE SortedStrs(_)
SortedStrs(strs) ==
    IF strs = {} THEN <<>>
    ELSE LET first == CHOOSE a \in strs : \A b \in strs \ {a} : StrLess(a, b)
         IN  <<first>> \o SortedStrs(strs \ {first})

(***************************************************************************)
(* LINK_PATTERN = \[([^\]]+)\]\(([^)]+)\) and finditer                      *)
(***************************************************************************)
\* the first index >= from at which s holds the character c, or 0
RECURSIVE IndexOf(_, _, _)
IndexOf(s, c, from) ==
    IF from > Len(s) THEN 0
    ELSE IF s[from] = c THEN from
    ELSE IndexOf(s, c, from + 1)

\* the matches of LINK_PATTERN in content that start at index >= i, in order
RECURSIVE FindLinks(_, _)
FindLinks(content, i) ==
    IF i > Len(content) THEN <<>>
    ELSE IF content[i] # "[" THEN FindLinks(content, i + 1)
    ELSE LET j == IndexOf(content, "]", i + 1)
         IN  IF j <= i + 1 \/ j + 1 > Len(content) \/ content[j + 1] # "("
             THEN FindLinks(content, i + 1)
             ELSE LET k == IndexOf(content, ")", j + 2)
                  IN  IF k <= j + 2 THEN FindLinks(content, i + 1)
                      ELSE <<[group1 |-> SubSeq(content, i + 1, j - 1),
                              group2 |-> SubSeq(content, j + 2, k - 1),
                              start |-> i - 1]>>
                           \o FindLinks(content, k + 1)

\* s.count(c)
RECURSIVE Count(_, _)
Count(s, c) ==
    IF s = <<>> THEN 0
    ELSE (IF Head(s) = c THEN 1 ELSE 0) + Count(Tail(s), c)

\* content[:match.start()].count('\n') + 1
LineOf(content, match) == Count(SubSeq(content, 1, match.start), "\n") + 1

(***************************************************************************)
(* The results dict and the main scan loop.                                *)
(***************************************************************************)
InitResults ==
    [total_files |-> 0,
     total_links |-> 0,
     valid_links |-> 0,
     broken_links |-> <<>>,
     external_links |-> <<>>,
     anchor_links |-> <<>>,
     redundant_links |-> EmptyMap,
     path_issues |-> <<>>,
     file_details |-> EmptyMap]

\* d[key].append(item) for a defaultdict(list)
AppendTo(d, key, item) ==
    Put(d, key, IF key \in DOMAIN d THEN Append(d[key], item) ELSE <<item>>)

\* link_info, built from one match in md_file
LinkInfo(file, match) ==
    LET r == resolve_link_path(match.group2, file)
    IN  [source |-> file,
         text |-> match.group1,
         url |-> match.group2,
         resolved |-> r[1],
         type |-> r[2],
         line |-> LineOf(tree[file], match),
         status |-> "unset"]

\* resolved_path and check_file_exists(resolved_path)
LinkIsValid(info) ==
    info.resolved # None /\ info.resolved # <<>> /\ check_file_exists(info.resolved)

\* Classify without the "continue" of the external branch: the link is also
\* treated as an internal one
ClassifyFallsThrough(res, links, info) ==
    LET res1 == IF info.type = "external"
                THEN [res EXCEPT !.external_links = Append(@, info)] ELSE res
    IN  IF info.type = "anchor"
        THEN <<[res1 EXCEPT !.anchor_links = Append(@, info)], links>>
        ELSE IF LinkIsValid(info)
        THEN LET ok == [info EXCEPT !.status = "ok"]
             IN  <<[res1 EXCEPT !.valid_links = @ + 1,
                                !.redundant_links = AppendTo(@, info.resolved, ok)],
                   Append(links, ok)>>
        ELSE LET broken == [info EXCEPT !.status = "broken"]
             IN  <<[res1 EXCEPT !.broken_links = Append(@, broken)],
                   Append(links, broken)>>

\* the body of the finditer loop after link_info is built: the new results
\* and the new file_links
Classify(res, links, info) ==
    IF info.type = "external"
    THEN <<[res EXCEPT !.external_links = Append(@, info)], links>>
    ELSE IF info.type = "anchor"
    THEN <<[res EXCEPT !.anchor_links = Append(@, info)], links>>
    ELSE IF LinkIsValid(info)
    THEN LET ok == [info EXCEPT !.status = "ok"]
         IN  <<[res EXCEPT !.valid_links = @ + 1,
                           !.redundant_links = AppendTo(@, info.resolved, ok)],
               Append(links, ok)>>
    ELSE LET broken == [info EXCEPT !.status = "broken"]
         IN  <<[res EXCEPT !.broken_links = Append(@, broken)],
               Append(links, broken)>>

\* len([l for l in file_links if l.get('status') == status])
CountStatus(links, status) ==
    Cardinality({i \in 1..Len(links) : links[i].status = status})

\* results['file_details'][rel_path] after the finditer loop
FileDetails(links) ==
    [total_links |-> Len(links),
     valid_links |-> CountStatus(links, "ok"),
     broken_links |-> CountStatus(links, "broken"),
     links |-> links]

\* results['file_details'][rel_path] in the except clause
ErrorDetails == [error |-> "str(e)", links |-> <<>>]

(***************************************************************************)
(* The report pass.                                                        *)
(***************************************************************************)
RedundantThreshold == 5   \* if len(links) >= 5
SourcesShown == 10        \* sorted(sources)[:10]
TopFiles == 15            \* files_by_links[:15]

\* seq[:n]
Take(seq, n) == SubSeq(seq, 1, IF Len(seq) < n THEN Len(seq) ELSE n)

\* the links of seq whose source is file, in order
RECURSIVE FromSource(_, _)
FromSource(seq, file) ==
    IF seq = <<>> THEN <<>>
    ELSE (IF Head(seq).source = file THEN <<Head(seq)>> ELSE <<>>)
         \o FromSource(Tail(seq), file)

\* the "BROKEN LINKS" section: one entry per source file, files in sorted order
BrokenSection(res) ==
    LET broken_by_file == {res.broken_links[i].source : i \in 1..Len(res.broken_links)}
        files == SortedStrs(broken_by_file)
    IN  [n \in 1..Len(files) |->
            [file_path |-> files[n],
             links |-> FromSource(res.broken_links, files[n])]]

\* one entry of the "REDUNDANT LINKS" section
RedundantEntry(target, links) ==
    LET sources == {links[i].source : i \in 1..Len(links)}
    IN  [target |-> target,
         links |-> Len(links),
         sources |-> Take(SortedStrs(sources), SourcesShown),
         more |-> IF Cardinality(sources) > SourcesShown
                  THEN Cardinality(sources) - SourcesShown ELSE 0]

\* whether the report prints an entry for a target with these links
IsRedundant(links) == Len(links) >= RedundantThreshold

\* the "REDUNDANT LINKS" section over the targets in sorted order
RECURSIVE RedundantSection(_, _)
RedundantSection(res, targets) ==
    IF targets = <<>> THEN <<>>
    ELSE (IF IsRedundant(res.redundant_links[Head(targets)])
          THEN <<RedundantEntry(Head(targets), res.redundant_links[Head(targets)])>>
          ELSE <<>>)
         \o RedundantSection(res, Tail(targets))

\* sorted(pairs, key=count, reverse=True): stable, by descending count
RECURSIVE SortedByCount(_)
SortedByCount(pairs) ==
    IF pairs = <<>> THEN <<>>
    ELSE LET n == CHOOSE i \in 1..Len(pairs) :
                    /\ \A j \in 1..Len(pairs) : pairs[j].count <= pairs[i].count
                    /\ \A j \in 1..(i - 1) : pairs[j].count < pairs[i].count
         IN  <<pairs[n]>>
             \o SortedByCount(SubSeq(pairs, 1, n - 1) \o SubSeq(pairs, n + 1, Len(pairs)))

\* the "FILES WITH MOST LINKS" section; file_details keeps insertion order,
\* which is the order of the scan
TopSection(res, scanned) ==
    LET with_links == SelectSeq(scanned,
                          LAMBDA f : /\ f \in DOMAIN res.file_details
                                     /\ "total_links" \in DOMAIN res.file_details[f])
        pairs == [n \in 1..Len(with_links) |->
                    [path |-> with_links[n],
                     count |-> res.file_details[with_links[n]].total_links,
                     valid |-> res.file_details[with_links[n]].valid_links,
                     broken |-> res.file_details[with_links[n]].broken_links]]
    IN  Take(SortedByCount(pairs), TopFiles)

Report(res, scanned) ==
    [total_files |-> res.total_files,
     total_links |-> res.total_links,
     valid_links |-> res.valid_links,
     broken_links |-> Len(res.broken_links),
     external_links |-> Len(res.external_links),
     anchor_links |-> Len(res.anchor_links),
     broken |-> BrokenSection(res),
     redundant |-> RedundantSection(res, SortedStrs(DOMAIN res.redundant_links)),
     top |-> TopSection(res, scanned)]

(***************************************************************************)
(* The script: index, scan, report, over enumerated directory trees.       *)
(***************************************************************************)
Link(text, url) == <<"[">> \o text \o <<"]", "(">> \o url \o <<")">>

Root == <<"r", "o", "o", "t">>
Missing == <<"m", "i", "s", "s", "i", "n", "g">>
ExampleCom == Https \o <<"e", "x", "a", "m", "p", "l", "e", ".", "c", "o", "m">>
Top == <<"#", "t", "o", "p">>

\* [a](../root) [b](missing) [c](https://example.com) [d](#top)
FourLinks ==
    Link(<<"a">>, DotDotSlash \o Root) \o <<" ">> \o Link(<<"b">>, Missing)
    \o <<" ">> \o Link(<<"c">>, ExampleCom) \o <<" ">> \o Link(<<"d">>, Top)

\* [g](guide) and, on the next line, [s](./root.md) [m](mailto:x)
GuideLinks ==
    Link(<<"g">>, Guide) \o <<"\n">> \o Link(<<"s">>, DotSlash \o Root \o DotMd)
    \o <<" ">> \o Link(<<"m">>, Mailto \o X)

\* n lines, each the link [t](/docs/root)
RECURSIVE Repeated(_)
Repeated(n) ==
    IF n = 0 THEN <<>>
    ELSE Link(<<"t">>, SlashDocs \o Root) \o <<"\n">> \o Repeated(n - 1)

TextPool == {<<>>, NoText, FourLinks, GuideLinks} \cup {Repeated(n) : n \in 1..MaxRepeat}

ScanFilePool == {RootMd, SubPageMd, ABMd, GuideReadmeMd}

ScanTrees ==
    UNION {[paths -> TextPool] :
              paths \in {ps \in SUBSET ScanFilePool : Cardinality(ps) \in 1..MaxFiles}}

Init ==
    /\ tree \in ScanTrees
    /\ pc = "index"
    /\ file_map = EmptyMap
    /\ to_index = DOMAIN tree
    /\ results = InitResults
    /\ queue = <<>>
    /\ md_file = None
    /\ matches = <<>>
    /\ link_info = None
    /\ report = None
    /\ file_links = <<>>
    /\ link_url = <<>>
    /\ source_file = None
    /\ ret = NoRet
    /\ arg = None
    /\ exists = "unset"

\* "for md_file in sorted(BETADOCS_ROOT.rglob("*.md"))" is entered
StartScan ==
    /\ pc = "index"
    /\ to_index = {}
    /\ queue' = SortedPaths(DOMAIN tree)
    /\ pc' = "scan"
    /\ UNCHANGED <<tree, file_map, to_index, results, md_file, matches,
                   link_info, report, link_url, source_file, ret, arg, exists,
                   file_links>>

\* the next file is taken and read_text succeeds
ReadFile ==
    /\ pc = "scan"
    /\ queue # <<>>
    /\ IsFile(Head(queue))
    /\ md_file' = Head(queue)
    /\ queue' = Tail(queue)
    /\ results' = [results EXCEPT !.total_files = @ + 1]
    /\ matches' = FindLinks(tree[Head(queue)], 1)
    /\ file_links' = <<>>
    /\ pc' = "links"
    /\ UNCHANGED <<tree, file_map, to_index, link_info, report, link_url,
                   source_file, ret, arg, exists>>

\* ReadFails with an except clause that leaves the loop
ReadFailsAborts ==
    /\ pc = "scan"
    /\ queue # <<>>
    /\ ~IsFile(Head(queue))
    /\ md_file' = Head(queue)
    /\ queue' = <<>>
    /\ results' = [results EXCEPT
                      !.total_files = @ + 1,
                      !.file_details = Put(@, Head(queue), ErrorDetails)]
    /\ UNCHANGED <<tree, pc, file_map, to_index, matches, link_info, report,
                   link_url, source_file, ret, arg, exists, file_links>>

\* the next file is taken and read_text raises: the except clause runs
ReadFails ==
    /\ pc = "scan"
    /\ queue # <<>>
    /\ ~IsFile(Head(queue))
    /\ md_file' = Head(queue)
    /\ queue' = Tail(queue)
    /\ results' = [results EXCEPT
                      !.total_files = @ + 1,
                      !.file_details = Put(@, Head(queue), ErrorDetails)]
    /\ UNCHANGED <<tree, pc, file_map, to_index, matches, link_info, report,
                   link_url, source_file, ret, arg, exists, file_links>>

\* finditer yields a match: it is counted and link_info is built
LinkFound ==
    /\ pc = "links"
    /\ matches # <<>>
    /\ results' = [results EXCEPT !.total_links = @ + 1]
    /\ link_info' = LinkInfo(md_file, Head(matches))
    /\ matches' = Tail(matches)
    /\ pc' = "classify"
    /\ UNCHANGED <<tree, file_map, to_index, queue, md_file, report, link_url,
                   source_file, ret, arg, exists, file_links>>

\* the rest of the loop body: the link goes to its list
LinkClassified ==
    /\ pc = "classify"
    /\ results' = Classify(results, file_links, link_info)[1]
    /\ file_links' = Classify(results, file_links, link_info)[2]
    /\ link_info' = None
    /\ pc' = "links"
    /\ UNCHANGED <<tree, file_map, to_index, queue, md_file, matches, report,
                   link_url, source_file, ret, arg, exists>>

\* finditer is exhausted: the file's details are stored
FileDone ==
    /\ pc = "links"
    /\ matches = <<>>
    /\ results' = [results EXCEPT
                      !.file_details = Put(@, md_file, FileDetails(file_links))]
    /\ pc' = "scan"
    /\ UNCHANGED <<tree, file_map, to_index, queue, md_file, matches, link_info,
                   report, link_url, source_file, ret, arg, exists, file_links>>

\* the scan loop is over: the report is printed
PrintReport ==
    /\ pc = "scan"
    /\ queue = <<>>
    /\ report' = Report(results, SortedPaths(DOMAIN tree))
    /\ pc' = "done"
    /\ UNCHANGED <<tree, file_map, to_index, results, queue, md_file, matches,
                   link_info, link_url, source_file, ret, arg, exists, file_links>>

Next ==
    \/ IndexFile
    \/ StartScan
    \/ ReadFile
    \/ ReadFails
    \/ LinkFound
    \/ LinkClassified
    \/ FileDone
    \/ PrintReport

Spec == Init /\ [][Next]_vars

(***************************************************************************)
(* Properties.                                                             *)
(***************************************************************************)
\* the tree of the end-to-end scenario: root.md (empty) and sub/page.md
EndToEndTree == (RootMd :> <<>>) @@ (SubPageMd :> FourLinks)

\* C1: for the tree holding root.md (empty) and sub/page.md with the links
\* [a](../root) [b](missing) [c](https://example.com) [d](#top), the completed
\* scan reports total files 2, total links 4, external links 1, anchor links 1,
\* valid links 1 and broken links 1, and the one broken entry has source
\* sub/page.md and raw target "missing".
C1_EndToEnd ==
    (pc = "done" /\ tree = EndToEndTree) =>
        /\ report.total_files = 2
        /\ report.total_links = 4
        /\ report.external_links = 1
        /\ report.anchor_links = 1
        /\ report.valid_links = 1
        /\ report.broken_links = 1
        /\ Len(results.broken_links) = 1
        /\ results.broken_links[1].source = SubPageMd
        /\ results.broken_links[1].url = Missing

\* the recorded links, over all lists of the results, whose url starts with "#"
HashLinksIn(seq) == {i \in 1..Len(seq) : startswith(seq[i].url, <<"#">>)}

\* C2: a raw target that starts with "#" is returned by resolve_link_path as
\* kind "anchor" with no resolved path, and the scan records the link in the
\* anchor list only: it is neither counted valid, nor in the broken list, nor in
\* the per-document breakdown.
C2_AnchorOnly ==
    /\ (pc = "classify" /\ startswith(link_info.url, <<"#">>)) =>
            (link_info.type = "anchor" /\ link_info.resolved = None)
    /\ (pc \in {"index", "scan", "links", "classify", "done"}) =>
        /\ HashLinksIn(results.broken_links) = {}
        /\ HashLinksIn(results.external_links) = {}
        /\ HashLinksIn(file_links) = {}
        /\ \A t \in DOMAIN results.redundant_links :
                HashLinksIn(results.redundant_links[t]) = {}
        /\ \A f \in DOMAIN results.file_details :
                HashLinksIn(results.file_details[f].links) = {}

\* the directory of a source document, as the list of its segments
DirSegments(file) == LET segs == Split(file, "/") IN SubSeq(segs, 1, Len(segs) - 1)

\* C3: a target that starts with "./" resolves to kind "relative" and to
\* <source directory>/<remainder after the "./"> when the source directory is
\* not empty, and to the remainder alone when the source is at the root; no
\* segment of the remainder is collapsed.
C3_DotSlash ==
    (pc = "returned" /\ startswith(link_url, DotSlash)) =>
        LET remainder == DropFirst(RemoveMdExtension(RemoveAnchor(link_url)), 2)
            dir == Join(DirSegments(source_file), "/")
        IN  /\ ret[2] = "relative"
            /\ ret[1] = IF dir # <<>> THEN dir \o <<"/">> \o remainder ELSE remainder

\* the case variants of the document extension
MdVariants == {<<".", m, d>> : m \in {"m", "M"}, d \in {"d", "D"}}

\* a target without its trailing document extension, matched in any case
WithoutExtension(url) ==
    IF \E v \in MdVariants : endswith(url, v) THEN DropLast(url, 3) ELSE url

\* C4: the extension is removed only as the trailing suffix of the
\* fragment-stripped target, in any case (.md, .MD, .Md, .mD), and nothing else
\* of the target changes in that step; so an internal target resolves to the
\* same path and kind with and without any case variant of ".md" appended.
C4_TrailingExtension ==
    (pc = "returned" /\ ret[2] \notin {"external", "anchor"}) =>
        /\ ret = ResolveInternal(WithoutExtension(RemoveAnchor(link_url)), source_file)
        /\ \A v \in MdVariants : resolve_link_path(link_url \o v, source_file) = ret

\* the distinct source documents of the valid links to a target
DistinctSources(target) ==
    {results.redundant_links[target][i].source :
        i \in 1..Len(results.redundant_links[target])}

\* the entries of the redundant-links section printed for a target
ListedFor(target) ==
    {i \in 1..Len(report.redundant) : report.redundant[i].target = target}

\* C5: after the scan a resolved target is listed in the redundant-links
\* section exactly when valid links to it come from five or more distinct source
\* documents; with exactly five it is listed with exactly 5 sources.
C5_RedundantDistinct ==
    pc = "done" =>
        \A target \in DOMAIN results.redundant_links :
            /\ ListedFor(target) # {} <=> Cardinality(DistinctSources(target)) >= 5
            /\ \A i \in ListedFor(target) :
                    Cardinality(DistinctSources(target)) = 5
                        => Len(report.redundant[i].sources) = 5

GuideReadme == Guide \o SlashReadme

\* C6 as stated: with the document guide/README in the index, the link
\* [g](guide) is judged existing from any source document, whatever its
\* directory; and check_file_exists(p) is true for any p not ending in /README
\* whenever p/README is a registered key.
C6_AnySource ==
    pc = "checked" =>
        /\ (GuideReadme \in DOMAIN file_map /\ link_url = Guide /\ arg = ret[1])
                => exists = "true"
        /\ (~endswith(arg, SlashReadme) /\ (arg \o SlashReadme) \in DOMAIN file_map)
                => exists = "true"

\* C6 amended: with the document guide/README in the index, the link [g](guide)
\* is judged existing from any source document at the document root; and
\* check_file_exists(p) is true for any non-empty p not ending in /README
\* whenever p/README is a registered key.
C6_RootSource ==
    pc = "checked" =>
        /\ (GuideReadme \in DOMAIN file_map /\ link_url = Guide /\ arg = ret[1]
            /\ DirSegments(source_file) = <<>>)
                => exists = "true"
        /\ (arg # <<>> /\ ~endswith(arg, SlashReadme)
            /\ (arg \o SlashReadme) \in DOMAIN file_map)
                => exists = "true"

\* the link [g](guide) of a root document was checked and found through the
\* README of the directory guide, which is no registered key itself
C6_Witness ==
    /\ pc = "checked"
    /\ link_url = Guide
    /\ DirSegments(source_file) = <<>>
    /\ arg = ret[1]
    /\ arg = Guide
    /\ Guide \notin DOMAIN file_map
    /\ GuideReadme \in DOMAIN file_map
    /\ exists = "true"

\* the directory stack of the claim: ".." pops a non-empty stack and leaves an
\* empty one alone, "." and empty segments are skipped, others are pushed
RECURSIVE StackAfter(_, _)
StackAfter(stack, segs) ==
    IF segs = <<>> THEN stack
    ELSE LET before == StackAfter(stack, SubSeq(segs, 1, Len(segs) - 1))
             seg == segs[Len(segs)]
         IN  CASE seg = DotDot /\ before # <<>> -> SubSeq(before, 1, Len(before) - 1)
               [] seg = DotDot /\ before = <<>> -> <<>>
               [] seg = Dot \/ seg = <<>> -> before
               [] OTHER -> before \o <<seg>>

UpUpX == DotDotSlash \o DotDotSlash \o X
UpUpUpUpX == DotDotSlash \o DotDotSlash \o DotDotSlash \o DotDotSlash \o X

\* C7: a target that starts with "../" resolves to kind "relative" and to the
\* path left by the directory stack that starts as the segments of the source
\* directory; the stack never underflows, so from a/b/c the target ../../x
\* resolves to a/x and ../../../../x resolves to x.
C7_ParentStack ==
    (pc = "returned" /\ startswith(link_url, DotDotSlash)) =>
        /\ ret[2] = "relative"
        /\ ret[1] = Join(StackAfter(DirSegments(source_file),
                            Split(RemoveMdExtension(RemoveAnchor(link_url)), "/")), "/")
        /\ (source_file = ABCPMd /\ link_url = UpUpX) => ret[1] = <<"a", "/", "x">>
        /\ (source_file = ABCPMd /\ link_url = UpUpUpUpX) => ret[1] = X

\* ../../../../x was resolved from a/b/c/p.md: the stack was popped when empty
C7_Witness ==
    /\ pc = "returned"
    /\ source_file = ABCPMd
    /\ link_url = UpUpUpUpX
    /\ ret = <<X, "relative">>

\* C8 as stated: check_file_exists is true for every alias key registered for
\* a document; and from a root-level document /docs/a/b and a/b both resolve to
\* a/b.
C8_EveryAlias ==
    /\ (pc = "checked" /\ arg \in DOMAIN file_map) => exists = "true"
    /\ (pc \in {"returned", "checked"} /\ DirSegments(source_file) = <<>>
        /\ link_url \in {SlashDocs \o <<"a", "/", "b">>, <<"a", "/", "b">>})
            => ret[1] = <<"a", "/", "b">>

\* C8 amended: check_file_exists is true for every non-empty alias key
\* registered for a document; and from a root-level document /docs/a/b and a/b
\* both resolve to a/b.
C8_NonEmptyAlias ==
    /\ (pc = "checked" /\ arg \in DOMAIN file_map /\ arg # <<>>) => exists = "true"
    /\ (pc \in {"returned", "checked"} /\ DirSegments(source_file) = <<>>
        /\ link_url \in {SlashDocs \o <<"a", "/", "b">>, <<"a", "/", "b">>})
            => ret[1] = <<"a", "/", "b">>

\* the root-prefixed alias of sub/page was checked and found
C8_Witness ==
    /\ pc = "checked"
    /\ SubPageMd \in DOMAIN tree
    /\ arg = SlashDocs \o RelPath(SubPageMd)
    /\ exists = "true"

\* the finditer loop of one file, run to its end: <<results, file_links>>
RECURSIVE AllLinks(_, _, _, _)
AllLinks(res, links, file, ms) ==
    IF ms = <<>> THEN <<res, links>>
    ELSE LET counted == [res EXCEPT !.total_links = @ + 1]
             placed == Classify(counted, links, LinkInfo(file, Head(ms)))
         IN  AllLinks(placed[1], placed[2], file, Tail(ms))

\* the scan of files, in order, all of them readable with the given texts
RECURSIVE AllFiles(_, _, _)
AllFiles(res, files, texts) ==
    IF files = <<>> THEN res
    ELSE LET file == Head(files)
             scanned == AllLinks([res EXCEPT !.total_files = @ + 1], <<>>, file,
                                 FindLinks(texts[file], 1))
         IN  AllFiles([scanned[1] EXCEPT
                          !.file_details = Put(@, file, FileDetails(scanned[2]))],
                      Tail(files), texts)

Unreadable == {file \in DOMAIN tree : tree[file] = NoText}

\* the results of the scan of the same tree with every unreadable document
\* readable and empty
AsIfEmpty ==
    AllFiles(InitResults, SortedPaths(DOMAIN tree),
             [file \in DOMAIN tree |-> IF file \in Unreadable THEN <<>> ELSE tree[file]])

\* C9: a document whose read fails does not abort the scan: it is counted in
\* total files, its breakdown holds an error marker and no links, it adds
\* nothing to the tallies, and every other document is processed as if the
\* failing one had been readable and empty.
C9_ReadFailureIsolated ==
    pc = "done" =>
        /\ results.total_files = Cardinality(DOMAIN tree)
        /\ DOMAIN results.file_details = DOMAIN tree
        /\ \A file \in Unreadable :
                /\ "error" \in DOMAIN results.file_details[file]
                /\ results.file_details[file].links = <<>>
        /\ \A key \in DOMAIN results \ {"file_details"} : results[key] = AsIfEmpty[key]
        /\ \A file \in DOMAIN tree \ Unreadable :
                results.file_details[file] = AsIfEmpty.file_details[file]

\* root.md could not be read and sub/page.md, scanned after it, gave its links
C9_Witness ==
    /\ pc = "done"
    /\ RootMd \in Unreadable
    /\ SubPageMd \in DOMAIN tree \ Unreadable
    /\ "error" \in DOMAIN results.file_details[RootMd]
    /\ results.file_details[SubPageMd].total_links > 0
    /\ results.valid_links > 0

\* the number of links in the four buckets
Placed(res) ==
    res.valid_links + Len(res.broken_links) + Len(res.external_links)
    + Len(res.anchor_links)

\* the sum of total_links over the documents without an error marker
RECURSIVE InternalLinks(_, _)
InternalLinks(details, files) ==
    IF files = {} THEN 0
    ELSE LET file == CHOOSE f \in files : TRUE
         IN  (IF "error" \in DOMAIN details[file] THEN 0 ELSE details[file].total_links)
             + InternalLinks(details, files \ {file})

\* one step that places the link in exactly one of the four buckets
PlacedInOne ==
    LET valid == results'.valid_links - results.valid_links
        broken == Len(results'.broken_links) - Len(results.broken_links)
        external == Len(results'.external_links) - Len(results.external_links)
        anchor == Len(results'.anchor_links) - Len(results.anchor_links)
    IN  /\ {valid, broken, external, anchor} \subseteq {0, 1}
        /\ valid + broken + external + anchor = 1

\* C10: whenever every started link is fully processed, total_links is the
\* sum of valid_links and the lengths of the broken, external and anchor lists,
\* each link going to exactly one of the four; and at the end valid_links plus
\* the broken count is the sum of total_links over the documents without an
\* error marker.
C10_Conservation ==
    /\ [](pc # "classify" => results.total_links = Placed(results))
    /\ [][pc = "classify" => PlacedInOne]_vars
    /\ [](pc = "done" =>
            results.valid_links + Len(results.broken_links)
                = InternalLinks(results.file_details, DOMAIN results.file_details))

\* a finished scan that met an unreadable document and placed links in the
\* valid, broken and external buckets
C10_Witness ==
    /\ pc = "done"
    /\ Unreadable # {}
    /\ results.valid_links > 0
    /\ Len(results.broken_links) > 0
    /\ Len(results.external_links) > 0
    /\ results.total_links = Placed(results)

====
